---- MODULE Spec2Model ----
(***************************************************************************)
(* Tool-calling core of aisuite.                                           *)
(*                                                                         *)
(* Part 1 (Spec): the two tool loops of the repository,                    *)
(*   OpenaiProvider.chat_completions_create / _process_tool_calls and      *)
(*   AnthropicProvider.chat_completions_create, run for a bounded number   *)
(*   of completion calls against a nondeterministic provider and           *)
(*   nondeterministic tools.                                               *)
(* Part 2 (SpecBridge): the MCPClient session (aisuite/mcp/client.py).     *)
(* Part 3 (SpecRegistry): schema generation and the Tool Registry.         *)
(* Part 4 (SpecHttp): the bridge session over the HTTP transport.          *)
(***************************************************************************)
EXTENDS Integers, Sequences, FiniteSets, TLC

(***************************************************************************)
(* Bounds of the model.                                                    *)
(***************************************************************************)
\* most tool calls one provider response requests
MaxToolCalls == 2
\* completion calls made one after the other in one behaviour
MaxRuns == 2

(***************************************************************************)
(* Python values.                                                          *)
(***************************************************************************)
\* Python's None, kept apart from every string the program handles
None == "py:None"

\* Python's empty list, where the program stores one in place of a string
EmptyList == "py:[]"

\* `if x:` on a string or None
TruthyStr(s) == s # None /\ s # ""

\* values a tool callable returns: an int and a str with the same string form
PyValues ==
    { [ty |-> "int", val |-> 1],
      [ty |-> "str", val |-> "1"] }

\* str(value): the decimal digits of an int, a str unchanged, "None" for None
Str(v) ==
    CASE v.ty = "int" -> ToString(v.val)
      [] v.ty = "str" -> v.val
      [] v.ty = "NoneType" -> "None"

(***************************************************************************)
(* Messages.  One record shape for every message; a field a message does   *)
(* not carry holds None (tool_calls: the empty sequence).                  *)
(***************************************************************************)
Msg(role, type, content, id, name, calls) ==
    [role |-> role, type |-> type, content |-> content,
     tool_call_id |-> id, name |-> name, tool_calls |-> calls]

UserMsg(c) == Msg("user", "text", c, None, None, <<>>)
SystemMsg(c) == Msg("system", "text", c, None, None, <<>>)

\* the message histories a caller passes: non-empty, with or without a
\* leading system message
InputMessages ==
    { <<UserMsg("q")>>,
      <<SystemMsg("sys"), UserMsg("q")>> }

(***************************************************************************)
(* Tools given to a completion call.  A tool entry has a name and is or is *)
(* not callable (Anthropic entries are dicts with a "function" key).       *)
(***************************************************************************)
Tool(n, c) == [name |-> n, callable |-> c]

\* tools=None / "tools" not in kwargs
NoTools == [given |-> FALSE, list |-> <<>>]

OpenaiToolConfigs ==
    { NoTools,
      [given |-> TRUE, list |-> <<>>],
      [given |-> TRUE, list |-> <<Tool("A", TRUE)>>] }

AnthropicToolConfigs ==
    OpenaiToolConfigs \cup { [given |-> TRUE, list |-> <<Tool("A", FALSE)>>] }

\* the max_turns keyword values a caller passes
MaxTurnsArgs == {1, 2}

\* names a provider may ask for: a tool that can be supplied and one that never is
RequestNames == {"A", "Z"}

(***************************************************************************)
(* The provider (external collaborator): any response, or an exception.    *)
(* A response requests tools only in a run that was given a non-empty      *)
(* tool list.                                                              *)
(***************************************************************************)
CallId(k) == "call_" \o ToString(k)

ToolCallSeqs ==
    UNION { { [k \in 1..n |-> [id |-> CallId(k), name |-> f[k]]] :
                f \in [1..n -> RequestNames] } : n \in 0..MaxToolCalls }

Texts == {None, "", "hi"}

Responses(canRequest) ==
    { [text |-> t, tool_calls |-> tc] :
        t \in Texts, tc \in IF canRequest THEN ToolCallSeqs ELSE {<<>>} }

VARIABLES
    provider,        \* "openai" | "anthropic": the adapter serving this call
    tools,           \* the tools argument of the call
    max_turns,       \* the max_turns keyword the caller passed (lands in **kwargs)
    inputMsgs,       \* the messages the caller passed, as they were at the call
    messages,        \* the list bound to `messages` (OpenAI: the caller's list object)
    system_message,  \* Anthropic: system prompt split off the messages
    messages_copy,   \* Anthropic: the working copy, empty before it is made
    response,        \* the provider response being processed
    idx,             \* position of the loop in response.tool_calls
    tool_response,   \* result of execute_tool not yet appended
    sent,            \* log: the request of every provider call of this run
    responses,       \* log: the response of every provider call of this run
    executed,        \* log: every execute_tool of this run, with its outcome
    pc,              \* position in the handler
    result,          \* what the call returned or raised
    callNo,          \* number of completion calls started
    prevAppended     \* messages the previous call had appended when it ended

loopVars ==
    <<provider, tools, max_turns, inputMsgs, messages, system_message,
      messages_copy, response, idx, tool_response, sent, responses, executed,
      pc, result, callNo, prevAppended>>

VARIABLES
    b_pc,            \* MCPClient: "new", a step of __init__/_connect, "ready", "failed"
    b_args,          \* the keyword arguments of the constructor call
    server_params,   \* self.server_params: the command to spawn, None before it is set
    session,         \* self._session: None, or the state of the ClientSession object
    streams,         \* self._read / self._write: None, or "open"
    process,         \* the server subprocess: "none" | "running"
    tools_cache,     \* self._tools_cache
    b_requests,      \* log: the requests handed to the session's transport
    b_last,          \* the last operation of the caller and how it ended
    b_error          \* the exception __init__ raised, if it did

bridgeVars ==
    <<b_pc, b_args, server_params, session, streams, process, tools_cache,
      b_requests, b_last, b_error>>

VARIABLES
    registry,        \* Tool Registry: the registered tools, in registration order
    addLog,          \* log: the name of every add that succeeded, in order
    nexec,           \* number of execute operations so far
    r_last           \* the last registry or schema operation and how it ended

registryVars == <<registry, addLog, nexec, r_last>>

VARIABLES
    h_pc,            \* HTTP bridge session: "new", a step of connecting, "ready", "closed"
    h_url,           \* the server_url the caller passed
    endpoint,        \* the URL the session posts to
    h_requests,      \* log: every request posted, with the URL it went to
    h_id             \* the request-id counter: the id issued last

httpVars == <<h_pc, h_url, endpoint, h_requests, h_id>>

vars == <<loopVars, bridgeVars, registryVars, httpVars>>

\* what the actions of one part leave alone
notLoopVars == <<bridgeVars, registryVars, httpVars>>
notBridgeVars == <<loopVars, registryVars, httpVars>>
notRegistryVars == <<loopVars, bridgeVars, httpVars>>
notHttpVars == <<loopVars, bridgeVars, registryVars>>

NoResponse == [text |-> None, tool_calls |-> <<>>]
NoResult == [kind |-> "none"]

\* the conversation as the provider is given it
History ==
    IF provider = "anthropic"
    THEN (IF system_message = EmptyList THEN <<>> ELSE <<SystemMsg(system_message)>>)
         \o (IF messages_copy # <<>> THEN messages_copy ELSE messages)
    ELSE messages

LoopInit ==
    /\ provider = "openai"
    /\ tools = NoTools
    /\ max_turns = 1
    /\ inputMsgs = <<>>
    /\ messages = <<>>
    /\ system_message = EmptyList
    /\ messages_copy = <<>>
    /\ response = NoResponse
    /\ idx = 0
    /\ tool_response = NoResult
    /\ sent = <<>>
    /\ responses = <<>>
    /\ executed = <<>>
    /\ pc = "idle"
    /\ result = NoResult
    /\ callNo = 0
    /\ prevAppended = 0

(***************************************************************************)
(* Requests, results and errors.                                           *)
(***************************************************************************)
\* one provider call: the system prompt, the messages and the tools it carries
Request(sys, msgs, toolArg) == [system |-> sys, messages |-> msgs, tools |-> toolArg]

Raised(source, type, msg) ==
    [kind |-> "raised", source |-> source, type |-> type, msg |-> msg]

Returned(k, content, calls) ==
    [kind |-> "returned", call |-> k, content |-> content, tool_calls |-> calls]

ProviderError == Raised("provider", "APIError", "provider failed")

\* what one provider call produces: a response or an exception
ProviderOutcomes(canRequest) ==
    { [kind |-> "response", response |-> r] : r \in Responses(canRequest) }
        \cup { ProviderError }

\* (mutant of OnProviderError) the exception is wrapped before it is raised
OnProviderErrorWrapped(e) == Raised("provider", "RuntimeError", "completion failed: " \o e.msg)

\* what reaches the caller when a provider call raises: no handler has a
\* try around the call, so it is the provider's exception itself
OnProviderError(e) == e

\* a run was given at least one tool
HasTools(t) == t.given /\ Len(t.list) > 0

(***************************************************************************)
(* execute_tool: the first tool of the list whose name matches is called.  *)
(* A callable returns any value or raises; malformed arguments raise       *)
(* inside the same try block.                                              *)
(***************************************************************************)
\* the `for tool in tools: if name matches: break` search found a tool
Found(tool_name, list) == \E i \in 1..Len(list) : list[i].name = tool_name

\* the tool that search stops at: the first of that name
MatchingTool(tool_name, list) ==
    LET hits == { i \in 1..Len(list) : list[i].name = tool_name }
    IN list[CHOOSE i \in hits : \A j \in hits : i <= j]

Value(v) == [kind |-> "value", value |-> v]

NotFound(tool_name) ==
    Raised("tool", "ValueError", "Tool '" \o tool_name \o "' not found in provided tools")

NotCallable(tool_name) ==
    Raised("tool", "ValueError",
           "Tool '" \o tool_name \o "' does not have a callable function")

ExecError == Raised("tool", "Exception", "Error executing tool: " \o "boom")

\* outcomes of calling the matched callable with the arguments
CallOutcomes == { Value(v) : v \in PyValues } \cup { ExecError }

\* (mutant of OpenaiExecuteTool) tools looked up in a dict by name
OpenaiExecuteToolByKey(tool_name, list) ==
    IF ~Found(tool_name, list)
    THEN { Raised("tool", "KeyError", tool_name) }
    ELSE CallOutcomes

OpenaiExecuteTool(tool_name, list) ==
    IF ~Found(tool_name, list)
    THEN { NotFound(tool_name) }
    ELSE CallOutcomes

AnthropicExecuteTool(tool_name, list) ==
    IF ~Found(tool_name, list)
    THEN { NotFound(tool_name) }
    ELSE IF ~MatchingTool(tool_name, list).callable
    THEN { NotCallable(tool_name) }
    ELSE CallOutcomes

(***************************************************************************)
(* The messages the loops append.                                          *)
(***************************************************************************)
\* response.choices[0].message, appended as it is
OpenaiAssistantMsg(r) == Msg("assistant", "message", r.text, None, None, r.tool_calls)

\* (mutant of OpenaiToolMsg) the tool name is stored as tool_call_id
OpenaiToolMsgNameAsId(tool_id, tool_name, v) ==
    Msg("tool", "tool", Str(v), tool_name, tool_name, <<>>)

OpenaiToolMsg(tool_id, tool_name, v) ==
    Msg("tool", "tool", Str(v), tool_id, tool_name, <<>>)

AnthropicAssistantMsg(r) ==
    Msg("assistant", "text", IF TruthyStr(r.text) THEN r.text ELSE None,
        None, None, <<>>)

AnthropicToolResponse(tool_id, tool_name, v) ==
    Msg("user", "tool_response", Str(v), tool_id, tool_name, <<>>)

AnthropicToolError(tool_id, tool_name, e) ==
    Msg("user", "tool_response", "Error: " \o e.msg, tool_id, tool_name, <<>>)

\* (mutant of AppendTo) insert at the head instead of appending
AppendToFront(list, m) == <<m>> \o list

\* list.append
AppendTo(list, m) == Append(list, m)

\* (mutant of CallAt) the loop walks the requested calls backwards
CallAtReversed(calls, i) == calls[Len(calls) + 1 - i]

\* the tool call the loop handles in its i-th iteration
CallAt(calls, i) == calls[i]

\* normalize_response: the text if it is non-empty, the tool_use blocks as
\* function calls (name and arguments, no id)
NormalizeResponse(k, r) ==
    Returned(k, IF TruthyStr(r.text) THEN r.text ELSE None,
             [i \in 1..Len(r.tool_calls) |-> [name |-> r.tool_calls[i].name]])

\* the OpenAI response object, returned as it is
RawResponse(k, r) == Returned(k, r.text, r.tool_calls)

(***************************************************************************)
(* A caller starts a completion call.                                      *)
(***************************************************************************)
\* the list the handler starts from: the caller's messages
InitialMessages(input) == input

Appended == Len(History) - Len(inputMsgs)

Start(p, t, mt, input) ==
    /\ pc \in {"idle", "returned", "raised"}
    /\ callNo < MaxRuns
    /\ callNo' = callNo + 1
    /\ prevAppended' = Appended
    /\ provider' = p
    /\ tools' = t
    /\ max_turns' = mt
    /\ inputMsgs' = input
    /\ messages' = InitialMessages(input)
    /\ system_message' = EmptyList
    /\ messages_copy' = <<>>
    /\ response' = NoResponse
    /\ idx' = 0
    /\ tool_response' = NoResult
    /\ sent' = <<>>
    /\ responses' = <<>>
    /\ executed' = <<>>
    /\ result' = NoResult
    /\ pc' = "start"
    /\ UNCHANGED notLoopVars

StartCall ==
    \/ \E t \in OpenaiToolConfigs, mt \in MaxTurnsArgs, input \in InputMessages :
          Start("openai", t, mt, input)
    \/ \E t \in AnthropicToolConfigs, mt \in MaxTurnsArgs, input \in InputMessages :
          Start("anthropic", t, mt, input)

(***************************************************************************)
(* OpenaiProvider.chat_completions_create and _process_tool_calls.         *)
(* `messages` is the caller's list object: every append is made to it.     *)
(***************************************************************************)
\* (mutant of OpenaiTakesToolPath) `if tools is not None:`
OpenaiTakesToolPathIfGiven(t) == t.given

\* `if tools:` of chat_completions_create
OpenaiTakesToolPath(t) == HasTools(t)

\* the provider call made when the call carries no tools
OpenaiDirectCreate ==
    /\ pc = "start" /\ provider = "openai"
    /\ ~OpenaiTakesToolPath(tools)
    /\ \E out \in ProviderOutcomes(HasTools(tools)) :
          /\ sent' = Append(sent, Request(EmptyList, messages, NoTools))
          /\ IF out.kind = "raised"
             THEN /\ result' = OnProviderError(out)
                  /\ pc' = "raised"
                  /\ UNCHANGED responses
             ELSE /\ responses' = Append(responses, out.response)
                  /\ result' = RawResponse(Len(sent'), out.response)
                  /\ pc' = "returned"
    /\ UNCHANGED <<notLoopVars, provider, tools, max_turns, inputMsgs, messages, system_message,
                   messages_copy, response, idx, tool_response, executed, callNo,
                   prevAppended>>

\* where _process_tool_calls goes after the first response
OpenaiAfterFirst(r) == IF r.tool_calls # <<>> THEN "exec" ELSE "final"

\* _process_tool_calls up to the loop: the first provider call, and the
\* assistant message appended
OpenaiFirstCreate ==
    /\ pc = "start" /\ provider = "openai"
    /\ OpenaiTakesToolPath(tools)
    /\ \E out \in ProviderOutcomes(HasTools(tools)) :
          /\ sent' = Append(sent, Request(EmptyList, messages, tools))
          /\ IF out.kind = "raised"
             THEN /\ result' = OnProviderError(out)
                  /\ pc' = "raised"
                  /\ UNCHANGED <<responses, response, messages, idx>>
             ELSE /\ responses' = Append(responses, out.response)
                  /\ response' = out.response
                  /\ messages' = AppendTo(messages, OpenaiAssistantMsg(out.response))
                  /\ idx' = 1
                  /\ pc' = OpenaiAfterFirst(out.response)
                  /\ UNCHANGED result
    /\ UNCHANGED <<notLoopVars, provider, tools, max_turns, inputMsgs, system_message,
                   messages_copy, tool_response, executed, callNo, prevAppended>>

\* one iteration of the loop, first half: execute_tool; its exception is not
\* caught and ends the call
OpenaiExecute ==
    /\ pc = "exec" /\ provider = "openai"
    /\ LET call == CallAt(response.tool_calls, idx)
       IN \E out \in OpenaiExecuteTool(call.name, tools.list) :
             /\ executed' = Append(executed, [id |-> call.id, name |-> call.name,
                                              outcome |-> out])
             /\ IF out.kind = "raised"
                THEN /\ result' = out
                     /\ pc' = "raised"
                     /\ UNCHANGED tool_response
                ELSE /\ tool_response' = out
                     /\ pc' = "append"
                     /\ UNCHANGED result
    /\ UNCHANGED <<notLoopVars, provider, tools, max_turns, inputMsgs, messages, system_message,
                   messages_copy, response, idx, sent, responses, callNo,
                   prevAppended>>

\* one iteration of the loop, second half: the tool message is appended
OpenaiAppend ==
    /\ pc = "append" /\ provider = "openai"
    /\ LET call == CallAt(response.tool_calls, idx)
       IN messages' = AppendTo(messages,
                               OpenaiToolMsg(call.id, call.name, tool_response.value))
    /\ tool_response' = NoResult
    /\ idx' = idx + 1
    /\ pc' = IF idx < Len(response.tool_calls) THEN "exec" ELSE "final"
    /\ UNCHANGED <<notLoopVars, provider, tools, max_turns, inputMsgs, system_message,
                   messages_copy, response, sent, responses, executed, result,
                   callNo, prevAppended>>

\* the second provider call, with tools=None; its response is returned
OpenaiFinalCreate ==
    /\ pc = "final" /\ provider = "openai"
    /\ \E out \in ProviderOutcomes(HasTools(tools)) :
          /\ sent' = Append(sent, Request(EmptyList, messages, NoTools))
          /\ IF out.kind = "raised"
             THEN /\ result' = OnProviderError(out)
                  /\ pc' = "raised"
                  /\ UNCHANGED responses
             ELSE /\ responses' = Append(responses, out.response)
                  /\ result' = RawResponse(Len(sent'), out.response)
                  /\ pc' = "returned"
    /\ UNCHANGED <<notLoopVars, provider, tools, max_turns, inputMsgs, messages, system_message,
                   messages_copy, response, idx, tool_response, executed, callNo,
                   prevAppended>>

(***************************************************************************)
(* AnthropicProvider.chat_completions_create.  The caller's list is never  *)
(* written: `messages` is rebound to a slice, the appends go to a copy.    *)
(***************************************************************************)
\* the system prompt split off a leading system message
SystemOf(msgs) == IF msgs[1].role = "system" THEN msgs[1].content ELSE EmptyList

RestOf(msgs) == IF msgs[1].role = "system" THEN Tail(msgs) ELSE msgs

\* any(content.type == "tool_use" for content in response.content)
HasToolUse(r) == r.tool_calls # <<>>

\* response.content[0].text on a response whose first block is a tool_use block
NoTextAttribute == Raised("response", "AttributeError", "text")

\* the first provider call; without tool_use its normalized response is
\* returned, otherwise the copy is made and the assistant message appended
AnthropicFirstCreate ==
    /\ pc = "start" /\ provider = "anthropic"
    /\ system_message' = SystemOf(messages)
    /\ messages' = RestOf(messages)
    /\ \E out \in ProviderOutcomes(HasTools(tools)) :
          /\ sent' = Append(sent, Request(system_message', messages', tools))
          /\ IF out.kind = "raised"
             THEN /\ result' = OnProviderError(out)
                  /\ pc' = "raised"
                  /\ UNCHANGED <<responses, response, messages_copy, idx>>
             ELSE /\ responses' = Append(responses, out.response)
                  /\ response' = out.response
                  /\ IF ~HasToolUse(out.response)
                     THEN /\ result' = NormalizeResponse(Len(sent'), out.response)
                          /\ pc' = "returned"
                          /\ UNCHANGED <<messages_copy, idx>>
                     ELSE IF out.response.text = None
                     THEN /\ result' = NoTextAttribute
                          /\ pc' = "raised"
                          /\ UNCHANGED <<messages_copy, idx>>
                     ELSE /\ messages_copy' =
                                AppendTo(messages', AnthropicAssistantMsg(out.response))
                          /\ idx' = 1
                          /\ pc' = "exec"
                          /\ UNCHANGED result
    /\ UNCHANGED <<notLoopVars, provider, tools, max_turns, inputMsgs, tool_response, executed,
                   callNo, prevAppended>>

\* one tool_use block, first half: execute_tool inside try; an exception is
\* caught and kept for the error message.  Without "tools" in kwargs the
\* block is skipped.
AnthropicExecute ==
    /\ pc = "exec" /\ provider = "anthropic"
    /\ LET call == CallAt(response.tool_calls, idx)
       IN IF tools.given
          THEN \E out \in AnthropicExecuteTool(call.name, tools.list) :
                  /\ executed' = Append(executed, [id |-> call.id, name |-> call.name,
                                                   outcome |-> out])
                  /\ tool_response' = out
                  /\ pc' = "append"
                  /\ UNCHANGED idx
          ELSE /\ idx' = idx + 1
               /\ pc' = IF idx < Len(response.tool_calls) THEN "exec" ELSE "final"
               /\ UNCHANGED <<executed, tool_response>>
    /\ UNCHANGED <<notLoopVars, provider, tools, max_turns, inputMsgs, messages, system_message,
                   messages_copy, response, sent, responses, result, callNo,
                   prevAppended>>

\* one tool_use block, second half: the tool_response message, or the error
\* message of the except branch, is appended to the copy
AnthropicAppend ==
    /\ pc = "append" /\ provider = "anthropic"
    /\ LET call == CallAt(response.tool_calls, idx)
       IN messages_copy' =
             AppendTo(messages_copy,
                      IF tool_response.kind = "value"
                      THEN AnthropicToolResponse(call.id, call.name, tool_response.value)
                      ELSE AnthropicToolError(call.id, call.name, tool_response))
    /\ tool_response' = NoResult
    /\ idx' = idx + 1
    /\ pc' = IF idx < Len(response.tool_calls) THEN "exec" ELSE "final"
    /\ UNCHANGED <<notLoopVars, provider, tools, max_turns, inputMsgs, messages, system_message,
                   response, sent, responses, executed, result, callNo, prevAppended>>

\* the second provider call, on the copy; its normalized response is returned
AnthropicFinalCreate ==
    /\ pc = "final" /\ provider = "anthropic"
    /\ \E out \in ProviderOutcomes(HasTools(tools)) :
          /\ sent' = Append(sent, Request(system_message, messages_copy, tools))
          /\ IF out.kind = "raised"
             THEN /\ result' = OnProviderError(out)
                  /\ pc' = "raised"
                  /\ UNCHANGED responses
             ELSE /\ responses' = Append(responses, out.response)
                  /\ result' = NormalizeResponse(Len(sent'), out.response)
                  /\ pc' = "returned"
    /\ UNCHANGED <<notLoopVars, provider, tools, max_turns, inputMsgs, messages, system_message,
                   messages_copy, response, idx, tool_response, executed, callNo,
                   prevAppended>>

Next ==
    \/ StartCall
    \/ OpenaiDirectCreate
    \/ OpenaiFirstCreate
    \/ OpenaiExecute
    \/ OpenaiAppend
    \/ OpenaiFinalCreate
    \/ AnthropicFirstCreate
    \/ AnthropicExecute
    \/ AnthropicAppend
    \/ AnthropicFinalCreate


(***************************************************************************)
(* Part 2: MCPClient (aisuite/mcp/client.py).                              *)
(***************************************************************************)
\* most call_tool operations in one behaviour
MaxBridgeCalls == 2

\* a keyword the caller did not pass
Absent == "py:absent"

\* the ways a caller constructs the client: with or without a subprocess
\* command, with or without a server URL
ConstructorArgs ==
    { [command |-> c, server_url |-> u] :
        c \in {Absent, "npx"}, u \in {Absent, "http://localhost:8000"} }

\* both a command and a server URL, or neither
BothOrNeither(a) == (a.command = Absent) <=> (a.server_url = Absent)

\* (mutant of AcceptsArguments) a signature that swallows unknown keywords
AcceptsArgumentsAnyKeyword(a) == a.command # Absent

\* __init__(self, command, args=None, env=None): the call binds only if
\* command is passed and no keyword outside the signature is
AcceptsArguments(a) == a.command # Absent /\ a.server_url = Absent

\* the catalogs a server answers tools/list with
ServerCatalogs == { <<>>, <<"toolA">>, <<"toolA", "toolB">> }

\* self._tools_cache = None
NoCache == [cached |-> FALSE, tools |-> <<>>]

\* (mutant of Cache) the reply to tools/list is not kept
CacheNothing(list) == NoCache

\* self._tools_cache = tools_result.tools
Cache(list) == [cached |-> TRUE, tools |-> list]

NoOp == [op |-> "none"]

BridgeInit ==
    /\ b_pc = "new"
    /\ b_args = [command |-> Absent, server_url |-> Absent]
    /\ server_params = None
    /\ session = None
    /\ streams = None
    /\ process = "none"
    /\ tools_cache = NoCache
    /\ b_requests = <<>>
    /\ b_last = NoOp
    /\ b_error = None

\* MCPClient(**a): the arguments are bound, the fields set, and _connect
\* begins; a call that does not bind raises TypeError before the body runs
Construct(a) ==
    /\ b_pc = "new"
    /\ b_args' = a
    /\ IF AcceptsArguments(a)
       THEN /\ server_params' = a.command
            /\ b_pc' = "connect_transport"
            /\ UNCHANGED b_error
       ELSE /\ b_error' = "TypeError"
            /\ b_pc' = "failed"
            /\ UNCHANGED server_params
    /\ UNCHANGED <<notBridgeVars, session, streams, process, tools_cache, b_requests, b_last>>

ConstructClient == \E a \in ConstructorArgs : Construct(a)

\* _async_connect: stdio_client(...).__aenter__() spawns the server; a spawn
\* that fails raises out of __init__
ConnectTransport ==
    /\ b_pc = "connect_transport"
    /\ \/ /\ process' = "running"
          /\ streams' = "open"
          /\ b_pc' = "connect_session"
          /\ UNCHANGED b_error
       \/ /\ b_error' = "OSError"
          /\ b_pc' = "failed"
          /\ UNCHANGED <<process, streams>>
    /\ UNCHANGED <<notBridgeVars, b_args, server_params, session, tools_cache, b_requests, b_last>>

\* _async_connect: the ClientSession is created and entered
ConnectSession ==
    /\ b_pc = "connect_session"
    /\ session' = "entered"
    /\ b_pc' = "connect_initialize"
    /\ UNCHANGED <<notBridgeVars, b_args, server_params, streams, process, tools_cache,
                   b_requests, b_last, b_error>>

\* a request handed to the session, and what became of it: "pending" until
\* its reply or its failure has been received
BridgeRequest(method, name) == [method |-> method, name |-> name, reply |-> "pending"]

\* the last request is answered
Replied(requests, how) == [requests EXCEPT ![Len(requests)].reply = how]

\* requests sent and not yet answered
Inflight == Cardinality({ i \in 1..Len(b_requests) : b_requests[i].reply = "pending" })

\* (mutant of AfterSend) the handler goes on without awaiting the reply
AfterSendNoWait(waiting, next) == next

\* where a handler is after it sent a request: `await` suspends the
\* coroutine, and run_until_complete the caller, until the reply is there
AfterSend(waiting, next) == waiting

\* _async_connect: session.initialize() sends the initialize request
ConnectInitialize ==
    /\ b_pc = "connect_initialize"
    /\ b_requests' = Append(b_requests, BridgeRequest("initialize", None))
    /\ b_pc' = AfterSend("await_initialize", "connect_list_tools")
    /\ UNCHANGED <<notBridgeVars, b_args, server_params, session, streams, process, tools_cache,
                   b_last, b_error>>

\* the reply to initialize, or its failure, which leaves __init__ as raised
ConnectInitializeReply ==
    /\ b_pc = "await_initialize"
    /\ \/ /\ b_requests' = Replied(b_requests, "ok")
          /\ b_pc' = "connect_list_tools"
          /\ UNCHANGED b_error
       \/ /\ b_requests' = Replied(b_requests, "error")
          /\ b_error' = "McpError"
          /\ b_pc' = "failed"
    /\ UNCHANGED <<notBridgeVars, b_args, server_params, session, streams, process, tools_cache,
                   b_last>>

\* _async_connect: session.list_tools() sends the tools/list request
ConnectListTools ==
    /\ b_pc = "connect_list_tools"
    /\ b_requests' = Append(b_requests, BridgeRequest("tools/list", None))
    /\ b_pc' = AfterSend("await_list_tools", "ready")
    /\ UNCHANGED <<notBridgeVars, b_args, server_params, session, streams, process, tools_cache,
                   b_last, b_error>>

\* the reply to tools/list is cached and __init__ returns; or its failure
ConnectListToolsReply ==
    /\ b_pc = "await_list_tools"
    /\ \/ /\ b_requests' = Replied(b_requests, "ok")
          /\ \E catalog \in ServerCatalogs : tools_cache' = Cache(catalog)
          /\ b_pc' = "ready"
          /\ UNCHANGED b_error
       \/ /\ b_requests' = Replied(b_requests, "error")
          /\ b_error' = "McpError"
          /\ b_pc' = "failed"
          /\ UNCHANGED tools_cache
    /\ UNCHANGED <<notBridgeVars, b_args, server_params, session, streams, process, b_last>>

\* the session is in use: entered and not yet exited
SessionOpen == session = "entered"

\* what an operation leaves behind: its name, whether the session was open
\* when it was called, how it ended ("ok" or the exception's class and
\* message), the value it returned, and the requests it sent
Op(name, outcome, msg, value, nsent) ==
    [op |-> name, open |-> SessionOpen, outcome |-> outcome, msg |-> msg,
     value |-> value, sent |-> nsent]

NotConnected == "Not connected to MCP server"

\* (mutant of ListTools) a list_tools that asks the server again and caches
\* the answer
ListToolsRefreshing ==
    /\ b_pc = "ready"
    /\ \E catalog \in ServerCatalogs :
          /\ b_requests' = Append(b_requests,
                                  [BridgeRequest("tools/list", None) EXCEPT !.reply = "ok"])
          /\ tools_cache' = Cache(catalog)
          /\ b_last' = Op("list_tools", "ok", "", catalog, 1)
    /\ UNCHANGED <<notBridgeVars, b_pc, b_args, server_params, session, streams, process,
                   b_error>>

\* list_tools(): the cache, or RuntimeError when there is none
ListTools ==
    /\ b_pc = "ready"
    /\ b_last' = IF ~tools_cache.cached
                 THEN Op("list_tools", "RuntimeError", NotConnected, <<>>, 0)
                 ELSE Op("list_tools", "ok", "", tools_cache.tools, 0)
    /\ UNCHANGED <<notBridgeVars, b_pc, b_args, server_params, session, streams, process,
                   tools_cache, b_requests, b_error>>

\* get_tool(name): list_tools(), then the wrapper of the first tool of that
\* name, or None
GetTool(tool_name) ==
    /\ b_pc = "ready"
    /\ b_last' =
          (IF ~tools_cache.cached
           THEN Op("get_tool", "RuntimeError", NotConnected, <<>>, 0)
           ELSE Op("get_tool", "ok", "",
                   IF \E i \in 1..Len(tools_cache.tools) : tools_cache.tools[i] = tool_name
                   THEN <<tool_name>>
                   ELSE <<None>>, 0))
          @@ [asked |-> tool_name]
    /\ UNCHANGED <<notBridgeVars, b_pc, b_args, server_params, session, streams, process,
                   tools_cache, b_requests, b_error>>

GetSomeTool == \E n \in {"toolA", "toolX"} : GetTool(n)

CallCount == Cardinality({ i \in 1..Len(b_requests) : b_requests[i].method = "tools/call" })

\* a content item of a result: it may have a text, a data, both or neither;
\* repr is what str() gives for it
ContentItem(has_text, text, has_data, data, repr) ==
    [has_text |-> has_text, text |-> text, has_data |-> has_data, data |-> data,
     repr |-> repr]

TextItem(t) == ContentItem(TRUE, t, FALSE, None, "TextContent(" \o t \o ")")
DataItem(d) == ContentItem(FALSE, None, TRUE, d, "ImageContent(" \o d \o ")")
OtherItem == ContentItem(FALSE, None, FALSE, None, "EmbeddedResource()")

\* the result envelope of session.call_tool: whether it has a content
\* attribute, whether that is a list, its items (or the content itself when
\* it is no list), and what str() gives for the envelope
CallToolResult(has_content, is_list, items, raw, repr) ==
    [has_content |-> has_content, is_list |-> is_list, items |-> items, raw |-> raw,
     repr |-> repr]

CallToolResults ==
    { CallToolResult(TRUE, TRUE, <<TextItem("r")>>, None, "CallToolResult(r)"),
      CallToolResult(TRUE, TRUE, <<TextItem("r"), TextItem("s")>>, None,
                     "CallToolResult(r,s)"),
      CallToolResult(TRUE, TRUE, <<DataItem("d"), TextItem("s")>>, None,
                     "CallToolResult(d,s)"),
      CallToolResult(TRUE, TRUE, <<OtherItem>>, None, "CallToolResult(other)"),
      CallToolResult(TRUE, TRUE, <<>>, None, "CallToolResult()"),
      CallToolResult(TRUE, FALSE, <<>>, "raw", "CallToolResult(raw)"),
      CallToolResult(FALSE, FALSE, <<>>, None, "Envelope()") }

\* what session.call_tool does on an open session: it returns a result,
\* raises McpError with the message of the error field of the JSON-RPC
\* reply, or raises the transport's exception
CallToolOutcomes ==
    { [kind |-> "result", result |-> r] : r \in CallToolResults }
    \cup { [kind |-> "raise", exc |-> "McpError", msg |-> "Invalid Request"],
           [kind |-> "raise", exc |-> "BrokenResourceError", msg |-> "stream broken"] }

\* _async_call_tool: the text of the first content item, else its data, else
\* its str(); the content itself when it is an empty list or no list; the
\* str() of the result when it has no content attribute
ExtractContent(res) ==
    IF res.has_content
    THEN IF res.is_list /\ Len(res.items) > 0
         THEN IF res.items[1].has_text THEN res.items[1].text
              ELSE IF res.items[1].has_data THEN res.items[1].data
              ELSE res.items[1].repr
         ELSE IF res.is_list THEN EmptyList ELSE res.raw
    ELSE res.repr

\* (mutant of CallToolEnd) a call_tool that reports a failure as its result
CallToolEndErrorAsResult(out) ==
    IF out.kind = "raise"
    THEN Op("call_tool", "ok", "", <<"Error: " \o out.msg>>, 1)
    ELSE Op("call_tool", "ok", "", <<ExtractContent(out.result)>>, 1)

\* how call_tool ends for an outcome of session.call_tool: no except clause,
\* so an exception of the session reaches the caller as it is
CallToolEnd(out) ==
    IF out.kind = "raise"
    THEN Op("call_tool", out.exc, out.msg, <<>>, 1)
    ELSE Op("call_tool", "ok", "", <<ExtractContent(out.result)>>, 1)

\* call_tool(): RuntimeError when self._session is None; otherwise
\* session.call_tool sends the request.  On a session that has been exited
\* the library decides whether the request is still written, and raises.
CallTool(tool_name) ==
    /\ b_pc = "ready"
    /\ CallCount < MaxBridgeCalls
    /\ IF session = None
       THEN /\ b_last' = Op("call_tool", "RuntimeError", NotConnected, <<>>, 0)
            /\ UNCHANGED <<b_requests, b_pc>>
       ELSE IF SessionOpen
       THEN /\ b_requests' = Append(b_requests, BridgeRequest("tools/call", tool_name))
            /\ b_pc' = AfterSend("await_call", "ready")
            /\ UNCHANGED b_last
       ELSE \E written \in BOOLEAN :
               /\ b_requests' =
                     IF written
                     THEN Append(b_requests,
                                 [BridgeRequest("tools/call", tool_name)
                                    EXCEPT !.reply = "error"])
                     ELSE b_requests
               /\ b_last' = Op("call_tool", "ClosedResourceError", "", <<>>,
                               IF written THEN 1 ELSE 0)
               /\ UNCHANGED b_pc
    /\ UNCHANGED <<notBridgeVars, b_args, server_params, session, streams, process,
                   tools_cache, b_error>>

CallSomeTool == \E n \in {"toolA", "toolB"} : CallTool(n)

\* the outcome of session.call_tool arrives and call_tool returns or raises
CallToolReply ==
    /\ b_pc = "await_call"
    /\ \E out \in CallToolOutcomes :
          /\ b_requests' = Replied(b_requests, IF out.kind = "raise" THEN "error" ELSE "ok")
          /\ b_last' = CallToolEnd(out) @@ [reply |-> out]
    /\ b_pc' = "ready"
    /\ UNCHANGED <<notBridgeVars, b_args, server_params, session, streams, process,
                   tools_cache, b_error>>

\* how session.__aexit__ ends: the first exit returns; what an exit of a
\* session that was already exited does is the library's choice
AexitOutcomes == IF SessionOpen THEN {"ok"} ELSE {"ok", "RuntimeError"}

\* close(): when self._session is not None, _async_close calls
\* session.__aexit__; no field is reset, so every later close() calls it
\* again.  The operation records the session methods it called.
Close ==
    /\ b_pc = "ready"
    /\ IF session # None
       THEN /\ session' = "exited"
            /\ \E out \in AexitOutcomes :
                  b_last' = Op("close", out, "", <<"__aexit__">>, 0)
       ELSE /\ UNCHANGED session
            /\ b_last' = Op("close", "ok", "", <<>>, 0)
    /\ UNCHANGED <<notBridgeVars, b_pc, b_args, server_params, streams, process, tools_cache,
                   b_requests, b_error>>

\* the ways control leaves a `with MCPClient(...) as mcp:` block: normally,
\* or with an exception raised in the block
BlockExits == {None, "ValueError"}

\* __exit__(exc_type, exc_val, exc_tb): self.close(), then return False, so
\* the exception of the block propagates; an exception of close() itself
\* replaces it.  close() exits the session only: the stdio_client context
\* that owns the subprocess and the streams is not exited.
Exit(exc) ==
    /\ b_pc = "ready"
    /\ IF session # None
       THEN /\ session' = "exited"
            /\ \E out \in AexitOutcomes :
                  b_last' = Op("__exit__", out, "", <<"__aexit__">>, 0)
                            @@ [exc |-> exc,
                                propagated |-> IF out = "ok" THEN exc ELSE out]
       ELSE /\ UNCHANGED session
            /\ b_last' = Op("__exit__", "ok", "", <<>>, 0)
                         @@ [exc |-> exc, propagated |-> exc]
    /\ UNCHANGED <<notBridgeVars, b_pc, b_args, server_params, streams, process, tools_cache,
                   b_requests, b_error>>

ExitBlock == \E exc \in BlockExits : Exit(exc)

\* the allowed_tools filters a caller supplies, and none
AllowedToolsArgs ==
    { [given |-> FALSE, names |-> {}] }
    \cup { [given |-> TRUE, names |-> ns] :
             ns \in { {}, {"toolA"}, {"toolB", "toolX"}, {"toolA", "toolB", "toolX"} } }

\* get_callable_tools: one wrapper per tool of the list, in the order of the
\* list; a wrapper is known by its __name__, the tool's name
CallableWrappers(tool_list) == [i \in 1..Len(tool_list) |-> tool_list[i]]

\* (mutant of Exposed) the filter is accepted and not applied
ExposedIgnoringFilter(catalog, allowed) == catalog

\* the catalog entries exposed under an allowed_tools filter: those whose
\* name is in the filter; all of them when no filter is supplied
Exposed(catalog, allowed) ==
    IF allowed.given
    THEN SelectSeq(catalog, LAMBDA n : n \in allowed.names)
    ELSE catalog

\* get_callable_tools(): list_tools(), then a wrapper for every exposed entry
GetCallableTools ==
    /\ b_pc = "ready"
    /\ \E allowed \in AllowedToolsArgs :
          b_last' =
             (IF ~tools_cache.cached
              THEN Op("get_callable_tools", "RuntimeError", NotConnected, <<>>, 0)
              ELSE Op("get_callable_tools", "ok", "",
                      CallableWrappers(Exposed(tools_cache.tools, allowed)), 0))
             @@ [allowed |-> allowed]
    /\ UNCHANGED <<notBridgeVars, b_pc, b_args, server_params, session, streams, process,
                   tools_cache, b_requests, b_error>>

BridgeNext ==
    \/ GetCallableTools
    \/ ConstructClient
    \/ ConnectTransport
    \/ ConnectSession
    \/ ConnectInitialize
    \/ ConnectInitializeReply
    \/ ConnectListTools
    \/ ConnectListToolsReply
    \/ ListTools
    \/ GetSomeTool
    \/ CallSomeTool
    \/ CallToolReply
    \/ Close
    \/ ExitBlock

(***************************************************************************)
(* Part 3 (SpecRegistry): schema generation and the Tool Registry.         *)
(* generate_function_calling_schema is examples/function_calling.py; the   *)
(* registry (aisuite/utils/tools.py, class Tools) is modelled from its     *)
(* specification and from tests/utils/test_tool_manager.py.                *)
(***************************************************************************)
\* most successful adds in one behaviour
MaxAdds == 3
\* most execute operations in one behaviour
MaxExecs == 2

\* type hints: a plain type, list[element], an enumeration with its member
\* values, and the absence of an annotation
Plain(t) == [kind |-> "plain", type |-> t]
ListOf(h) == [kind |-> "list", elem |-> h]
EnumOf(values) == [kind |-> "enum", values |-> values]
NoHint == [kind |-> "none"]

\* a parameter of a callable: its name, its type hint (NoHint when the
\* parameter has no annotation) and whether it has a default
Param(n, hint, hasDefault) == [name |-> n, hint |-> hint, default |-> hasDefault]

\* the default value of the parameters that have one
DefaultValue == "Celsius"

\* the callables a caller registers: fn is the function object, name its
\* __name__; two functions share a name, one has unannotated parameters
Callables ==
    { [fn |-> "f1", name |-> "get_current_temperature",
       params |-> <<Param("location", Plain("str"), FALSE),
                    Param("unit", Plain("str"), TRUE)>>],
      [fn |-> "f2", name |-> "get_current_temperature",
       params |-> <<Param("location", Plain("str"), FALSE),
                    Param("unit", EnumOf(<<"Celsius", "Fahrenheit">>), TRUE)>>],
      [fn |-> "g", name |-> "add_two_numbers",
       params |-> <<Param("a", Plain("int"), FALSE), Param("b", Plain("float"), FALSE),
                    Param("exact", Plain("bool"), TRUE),
                    Param("more", ListOf(ListOf(Plain("int"))), TRUE),
                    Param("extra", Plain("dict"), TRUE)>>],
      [fn |-> "m", name |-> "missing_annotation_tool",
       params |-> <<Param("location", NoHint, FALSE), Param("unit", NoHint, TRUE)>>] }

RECURSIVE GetTypeInfo(_)
\* _get_type_info: the JSON type of a type hint; list[X] gives an array
\* with the items of X; any other hint, an enumeration included, "string"
GetTypeInfo(hint) ==
    IF hint.kind = "plain"
    THEN CASE hint.type = "str" -> [type |-> "string"]
           [] hint.type = "int" -> [type |-> "integer"]
           [] hint.type = "float" -> [type |-> "number"]
           [] hint.type = "bool" -> [type |-> "boolean"]
           [] OTHER -> [type |-> "string"]
    ELSE IF hint.kind = "list"
    THEN [type |-> "array", items |-> GetTypeInfo(hint.elem)]
    ELSE [type |-> "string"]

\* type_hints.get(param_name, str): a parameter without a hint counts as str
HintOrStr(param) == IF param.hint = NoHint THEN Plain("str") ELSE param.hint

\* Argument(type=..., description=..., **rest).model_dump(): the model has
\* the fields type and description, every other key is dropped
Argument(type_info, description) ==
    [type |-> type_info.type, description |-> description]

\* the parameters that go to `required`: those without a default
RequiredParams(c) == SelectSeq(c.params, LAMBDA q : ~q.default)

\* generate_function_calling_schema: one property per parameter, the
\* parameters without a default required; it has no failing path
GenerateFunctionCallingSchema(c) ==
    [kind |-> "schema",
     name |-> c.name,
     properties |-> [i \in 1..Len(c.params) |->
                       [name |-> c.params[i].name,
                        value |-> Argument(GetTypeInfo(HintOrStr(c.params[i])),
                                           "Parameter " \o c.params[i].name)]],
     required |-> [i \in 1..Len(RequiredParams(c)) |-> RequiredParams(c)[i].name]]

\* some parameter of the callable carries no annotation
HasUnannotated(c) == \E i \in 1..Len(c.params) : c.params[i].hint = NoHint

NoRegistryOp == [op |-> "none"]

RegistryInit ==
    /\ registry = <<>>
    /\ addLog = <<>>
    /\ nexec = 0
    /\ r_last = NoRegistryOp

\* a caller generates the schema of a callable
GenerateSchema ==
    /\ \E c \in Callables :
          r_last' = [op |-> "generate", callable |-> c,
                     outcome |-> GenerateFunctionCallingSchema(c)]
    /\ UNCHANGED <<notRegistryVars, registry, addLog, nexec>>

\* the structured parameter models a tool is registered with: None, or
\* TemperatureParams (location: str, unit: str = "Celsius")
StructuredModels == {None, "TemperatureParams"}

ModelFields(m) ==
    IF m = "TemperatureParams"
    THEN <<[key |-> "location", ty |-> "str", required |-> TRUE],
           [key |-> "unit", ty |-> "str", required |-> FALSE]>>
    ELSE <<>>

\* an error of the registry
RegistryError(type, msg, fields) ==
    [kind |-> "error", type |-> type, msg |-> msg, fields |-> fields]

\* the message of an argument error names the tool
ArgumentErrorMsg(tool_name) == "Error in tool '" \o tool_name \o "' parameters"

IndexOfName(reg, n) ==
    IF \E i \in 1..Len(reg) : reg[i].name = n
    THEN CHOOSE i \in 1..Len(reg) : reg[i].name = n
    ELSE 0

\* (mutant of Store) every add appends an entry
StoreAppending(reg, entry) == Append(reg, entry)

\* the entry is stored under its name: a name already present has its entry
\* overwritten where it stands, a new name goes to the end
Store(reg, entry) ==
    IF IndexOfName(reg, entry.name) = 0
    THEN Append(reg, entry)
    ELSE [reg EXCEPT ![IndexOfName(reg, entry.name)] = entry]

\* add(callable, structured_model): the annotations are validated, then the
\* tool is stored under the callable's name
Add(c, m) ==
    /\ Len(addLog) < MaxAdds
    /\ IF HasUnannotated(c)
       THEN /\ r_last' = [op |-> "add", callable |-> c,
                          outcome |-> RegistryError("MissingAnnotationError", c.name, {})]
            /\ UNCHANGED <<registry, addLog>>
       ELSE /\ registry' = Store(registry, [name |-> c.name, fn |-> c.fn, model |-> m])
            /\ addLog' = Append(addLog, [name |-> c.name, fn |-> c.fn])
            /\ r_last' = [op |-> "add", callable |-> c, outcome |-> [kind |-> "ok"]]
    /\ UNCHANGED <<notRegistryVars, nexec>>

AddTool ==
    \E c \in Callables, m \in StructuredModels :
       /\ (m # None => c.name = "get_current_temperature")
       /\ Add(c, m)

\* specs(): one spec per registered tool, in the order of the registry
Specs ==
    /\ r_last' = [op |-> "specs",
                  outcome |-> [i \in 1..Len(registry) |-> registry[i].name]]
    /\ UNCHANGED <<notRegistryVars, registry, addLog, nexec>>

\* argument objects: a sequence of fields, each with the type of its value
ArgumentObjects ==
    { <<[key |-> "location", ty |-> "str"]>>,
      <<[key |-> "location", ty |-> "int"]>>,
      <<>> }

\* JSON-encoded arguments, one of them cut short
JsonTexts ==
    { "{\"location\": \"San Francisco\"}", "{\"location\": 123}", "{\"location\": " }

\* parsing a JSON text: the object it encodes, or a failure
JsonLoads(text) ==
    CASE text = "{\"location\": \"San Francisco\"}" ->
            [ok |-> TRUE, obj |-> <<[key |-> "location", ty |-> "str"]>>]
      [] text = "{\"location\": 123}" ->
            [ok |-> TRUE, obj |-> <<[key |-> "location", ty |-> "int"]>>]
      [] OTHER -> [ok |-> FALSE, obj |-> <<>>]

\* the arguments of a tool call request: a native object or a JSON text
ToolArguments ==
    { [enc |-> "object", obj |-> o, text |-> ""] : o \in ArgumentObjects }
    \cup { [enc |-> "json", obj |-> <<>>, text |-> t] : t \in JsonTexts }

ParseArguments(a) ==
    IF a.enc = "json" THEN JsonLoads(a.text) ELSE [ok |-> TRUE, obj |-> a.obj]

\* (mutant of Offending) a validation that only looks for missing fields
OffendingMissingOnly(m, obj) ==
    { ModelFields(m)[i].key : i \in
        { j \in 1..Len(ModelFields(m)) :
            /\ ModelFields(m)[j].required
            /\ ~\E k \in 1..Len(obj) : obj[k].key = ModelFields(m)[j].key } }

\* the fields of an argument object that violate the model: a required
\* field that is missing, a field whose value has another type
Offending(m, obj) ==
    { ModelFields(m)[i].key : i \in
        { j \in 1..Len(ModelFields(m)) :
            \/ /\ ModelFields(m)[j].required
               /\ ~\E k \in 1..Len(obj) : obj[k].key = ModelFields(m)[j].key
            \/ \E k \in 1..Len(obj) :
                  /\ obj[k].key = ModelFields(m)[j].key
                  /\ obj[k].ty # ModelFields(m)[j].ty } }

\* what the callable does when it is called: it returns or it raises
InvokeOutcomes ==
    { [kind |-> "value", value |-> [ty |-> "str", val |-> "72"]],
      RegistryError("ToolExecutionError", "boom", {}) }

\* execute(request): lookup by name, parsing and validation of the
\* arguments, then the call; an exception of the callable is caught
ExecuteOutcomes(req) ==
    LET i == IndexOfName(registry, req.name)
        parsed == ParseArguments(req.arguments)
        notInvoked(e) == [outcome |-> e, invoked |-> None]
    IN IF i = 0
       THEN { notInvoked(RegistryError("ToolNotFoundError", req.name, {})) }
       ELSE IF ~parsed.ok
       THEN { notInvoked(RegistryError("ToolArgumentError",
                                       ArgumentErrorMsg(req.name), {})) }
       ELSE IF registry[i].model # None /\ Offending(registry[i].model, parsed.obj) # {}
       THEN { notInvoked(RegistryError("ToolArgumentError", ArgumentErrorMsg(req.name),
                                       Offending(registry[i].model, parsed.obj))) }
       ELSE { [outcome |-> o, invoked |-> registry[i].fn] : o \in InvokeOutcomes }

Execute(req) ==
    /\ nexec < MaxExecs
    /\ nexec' = nexec + 1
    /\ \E e \in ExecuteOutcomes(req) :
          r_last' = [op |-> "execute", request |-> req, outcome |-> e.outcome,
                     invoked |-> e.invoked,
                     model |-> IF IndexOfName(registry, req.name) = 0 THEN None
                               ELSE registry[IndexOfName(registry, req.name)].model]
    /\ UNCHANGED <<notRegistryVars, registry, addLog>>

ExecuteTool ==
    \E n \in {"get_current_temperature", "add_two_numbers"}, a \in ToolArguments :
       Execute([id |-> "call_1", name |-> n, arguments |-> a])

RegistryNext ==
    \/ GenerateSchema
    \/ AddTool
    \/ Specs
    \/ ExecuteTool


(***************************************************************************)
(* Part 4 (SpecHttp): the bridge session over the HTTP transport.  The     *)
(* HTTP client is modelled from its specification and from                 *)
(* tests/mcp/test_http_transport.py.  A URL is the sequence of its parts.  *)
(***************************************************************************)
\* most tools/call requests in one behaviour
MaxHttpCalls == 3

BaseUrl == <<"http://localhost:8000">>

\* the server_url values a caller passes: with and without a path, with no,
\* one and two trailing slashes
ServerUrls ==
    { BaseUrl,
      BaseUrl \o <<"/">>,
      BaseUrl \o <<"/", "mcp", "/", "v1">>,
      BaseUrl \o <<"/", "mcp", "/", "v1", "/">>,
      BaseUrl \o <<"/", "mcp", "/", "v1", "/", "/">> }

RECURSIVE EndpointStrippingAll(_)
\* (mutant of Endpoint) every trailing slash is stripped
EndpointStrippingAll(url) ==
    IF Len(url) > 0 /\ url[Len(url)] = "/"
    THEN EndpointStrippingAll(SubSeq(url, 1, Len(url) - 1))
    ELSE url

\* the endpoint of a server URL: the URL with one trailing slash stripped
Endpoint(url) ==
    IF Len(url) > 0 /\ url[Len(url)] = "/"
    THEN SubSeq(url, 1, Len(url) - 1)
    ELSE url

\* a JSON-RPC request posted to a URL
Post(method, name, url) == [method |-> method, name |-> name, url |-> url]

\* a fresh request id: the counter is advanced for every request issued
NextRequestId(id) == id + 1

\* how a posted request ends: a result, a transport-level failure, or an
\* error reply of the protocol
HttpOutcomes == {"ok", "transport_error", "protocol_error"}

\* (mutant of CounterAfter) a failed request gives its id back
CounterRolledBack(id, outcome) == IF outcome = "ok" THEN id ELSE id - 1

\* the counter once the request has ended: what was issued stays issued,
\* whether the request succeeded or failed
CounterAfter(id, outcome) == id

\* the request the session posts next, with its id and how it ended
HttpRequest(method, name, outcome) ==
    Post(method, name, endpoint) @@ [id |-> NextRequestId(h_id), outcome |-> outcome]

HttpInit ==
    /\ h_pc = "new"
    /\ h_url = <<>>
    /\ endpoint = <<>>
    /\ h_requests = <<>>
    /\ h_id = 0

\* MCPClient(server_url=...): the HTTP client is bound to the endpoint
HttpConstruct ==
    /\ h_pc = "new"
    /\ \E url \in ServerUrls :
          /\ h_url' = url
          /\ endpoint' = Endpoint(url)
    /\ h_pc' = "initialize"
    /\ UNCHANGED <<notHttpVars, h_requests, h_id>>

\* connecting, step 2: the initialize request; a failure closes the session
HttpInitialize ==
    /\ h_pc = "initialize"
    /\ \E outcome \in HttpOutcomes :
          /\ h_requests' = Append(h_requests, HttpRequest("initialize", None, outcome))
          /\ h_id' = CounterAfter(NextRequestId(h_id), outcome)
          /\ h_pc' = IF outcome = "ok" THEN "list_tools" ELSE "closed"
    /\ UNCHANGED <<notHttpVars, h_url, endpoint>>

\* connecting, step 3: the tools/list request
HttpListTools ==
    /\ h_pc = "list_tools"
    /\ \E outcome \in HttpOutcomes :
          /\ h_requests' = Append(h_requests, HttpRequest("tools/list", None, outcome))
          /\ h_id' = CounterAfter(NextRequestId(h_id), outcome)
          /\ h_pc' = IF outcome = "ok" THEN "ready" ELSE "closed"
    /\ UNCHANGED <<notHttpVars, h_url, endpoint>>

HttpCallCount ==
    Cardinality({ i \in 1..Len(h_requests) : h_requests[i].method = "tools/call" })

\* call_tool on a connected session: one tools/call request with a fresh
\* id; a failure raises and leaves the session connected
HttpCallTool ==
    /\ h_pc = "ready"
    /\ HttpCallCount < MaxHttpCalls
    /\ \E n \in {"toolA", "toolB"}, outcome \in HttpOutcomes :
          /\ h_requests' = Append(h_requests, HttpRequest("tools/call", n, outcome))
          /\ h_id' = CounterAfter(NextRequestId(h_id), outcome)
    /\ UNCHANGED <<notHttpVars, h_pc, h_url, endpoint>>

\* close(): the transport is released
HttpClose ==
    /\ h_pc = "ready"
    /\ h_pc' = "closed"
    /\ UNCHANGED <<notHttpVars, h_url, endpoint, h_requests, h_id>>

HttpNext ==
    \/ HttpConstruct
    \/ HttpInitialize
    \/ HttpListTools
    \/ HttpCallTool
    \/ HttpClose

Init == LoopInit /\ BridgeInit /\ RegistryInit /\ HttpInit

Spec == Init /\ [][Next]_vars

SpecBridge == Init /\ [][BridgeNext]_vars

SpecRegistry == Init /\ [][RegistryNext]_vars

SpecHttp == Init /\ [][HttpNext]_vars

(***************************************************************************)
(* Properties of the tool loops (checked under Spec).                      *)
(***************************************************************************)
\* s is an initial part of t
IsPrefix(s, t) == Len(s) <= Len(t) /\ SubSeq(t, 1, Len(s)) = s

\* the tool-result messages of a history, in their order
ToolMsgs(h) == SelectSeq(h, LAMBDA m : m.type \in {"tool", "tool_response"})

\* C1: a run with a non-empty tool set issues at most max_turns provider
\* calls.  (The loops never consult max_turns: violated.)
C1_ProviderCallsWithinMaxTurns ==
    HasTools(tools) => Len(sent) <= max_turns

\* C2: the tool messages appended in a turn follow the order of the
\* requested calls: the k-th message answers the k-th call, the calls are
\* executed in that order, and the k-th message is in the history before
\* the (k+1)-th call is executed.
C2_ToolMessagesInRequestOrder ==
    LET tm == ToolMsgs(History)
        calls == response.tool_calls
    IN /\ Len(tm) <= Len(calls)
       /\ \A k \in 1..Len(tm) :
             /\ tm[k].tool_call_id = calls[k].id
             /\ tm[k].name = calls[k].name
       /\ Len(executed) <= Len(calls)
       /\ \A k \in 1..Len(executed) : executed[k].id = calls[k].id
       /\ pc = "exec" => Len(tm) = Len(executed) /\ idx = Len(tm) + 1
       /\ pc = "append" => Len(tm) = Len(executed) - 1

\* C2 witness: two tool messages of one turn are in the history, the first
\* of them the answer to a call that failed
C2_Witness ==
    /\ Len(ToolMsgs(History)) = 2
    /\ ToolMsgs(History)[1].tool_call_id # ToolMsgs(History)[2].tool_call_id
    /\ executed[1].outcome.kind = "raised"
    /\ executed[2].outcome.kind = "value"

\* C3: a tool failure inside a turn never aborts the run.  (OpenAI's loop
\* does not catch the exception of execute_tool: violated.)
C3_ToolFailureNeverAborts ==
    pc = "raised" => result.source # "tool"

C6_MaxTurnsOneNoToolExecuted ==
    ( /\ max_turns = 1
      /\ HasTools(tools)
      /\ \A k \in 1..Len(responses) : responses[k].tool_calls # <<>> )
    => /\ executed = <<>>
       /\ Len(sent) <= 1
       /\ pc = "returned" => Len(sent) = 1

\* C7: without tools a call issues exactly one provider call, executes no
\* tool, appends nothing and returns that call's response.
C7_NoToolsSingleProviderCall ==
    ~HasTools(tools) =>
       /\ Len(sent) <= 1
       /\ executed = <<>>
       /\ History = inputMsgs
       /\ pc = "returned" =>
            /\ Len(sent) = 1
            /\ result.call = 1
            /\ result.content = (IF provider = "anthropic" /\ responses[1].text = ""
                                 THEN None ELSE responses[1].text)
            /\ result.tool_calls = <<>>

\* C7 witness: an OpenAI call given an empty tool list has returned
C7_Witness ==
    /\ pc = "returned"
    /\ provider = "openai"
    /\ tools.given /\ tools.list = <<>>
    /\ result.content = "hi"

\* C8: with tools supplied, a response without tool calls is returned at
\* once: it is the last provider call of the run.  (Violated: OpenAI's
\* loop calls the provider a second time.)
C8_ReturnsResponseWithoutToolCalls ==
    HasTools(tools) =>
       \A k \in 1..Len(responses) :
          responses[k].tool_calls = <<>> =>
             /\ Len(sent) = k
             /\ pc = "returned" => result.call = k

C10_OperationsOnlyWhileConnected ==
    (b_last.op \in {"list_tools", "call_tool"} /\ ~b_last.open) =>
       /\ b_last.outcome = "RuntimeError"
       /\ b_last.sent = 0

\* C11: a second close() raises nothing, calls nothing on the session or the
\* transport and leaves the session as the first close() left it.
\* (Violated: _session is never reset, so __aexit__ is called again.)
C11_SecondCloseIsNoOp ==
    (b_last.op = "close" /\ ~b_last.open) =>
       /\ b_last.outcome = "ok"
       /\ b_last.value = <<>>
       /\ session = "exited"

\* C12: when a step of connecting fails, the constructor raises and the
\* session ends closed: no subprocess is left running, no stream open, no
\* session entered, and the client never becomes ready.
\* (Violated: a failed initialize or tools/list releases nothing.)
C12_FailedConnectReleasesTransport ==
    (b_pc = "failed" /\ AcceptsArguments(b_args)) =>
       /\ b_error # None
       /\ process # "running"
       /\ streams # "open"
       /\ session # "entered"

C14_UnknownToolNotFoundError ==
    \A k \in 1..Len(executed) :
       ~Found(executed[k].name, tools.list) =>
          /\ executed[k].outcome = NotFound(executed[k].name)
          /\ executed[k].outcome.type \notin {"KeyError", "IndexError", "AttributeError"}
          /\ executed[k].outcome.kind # "value"
          /\ executed[k].outcome # ExecError

\* C14 witness: the OpenAI loop was asked for tool Z, which is not supplied,
\* and the error has reached the caller
C14_Witness ==
    /\ provider = "openai"
    /\ pc = "raised"
    /\ Len(executed) >= 1
    /\ executed[Len(executed)].name = "Z"
    /\ result.type = "ValueError"

(***************************************************************************)
(* Properties of the registry and of schema generation (SpecRegistry).     *)
(***************************************************************************)
\* the argument values that violate TemperatureParams (location of another
\* type, location missing) or are not JSON
ViolatingArguments ==
    { a \in ToolArguments :
        \/ a.enc = "object" /\ a.obj # <<[key |-> "location", ty |-> "str"]>>
        \/ a.enc = "json" /\ a.text # "{\"location\": \"San Francisco\"}" }

MalformedArguments ==
    { a \in ToolArguments : a.enc = "json" /\ a.text = "{\"location\": " }

C16_CallableExceptionContained ==
    (pc = "raised" /\ result.source = "tool") => result.type # "Exception"

RECURSIVE FirstOccurrences(_)
\* the names of a log, each kept where it first occurs
FirstOccurrences(log) ==
    IF log = <<>> THEN <<>>
    ELSE LET front == FirstOccurrences(SubSeq(log, 1, Len(log) - 1))
             last == log[Len(log)].name
         IN IF \E i \in 1..Len(front) : front[i] = last
            THEN front
            ELSE Append(front, last)

\* the function of the newest add of a name
NewestFn(n) ==
    LET hits == { i \in 1..Len(addLog) : addLog[i].name = n }
    IN addLog[CHOOSE i \in hits : \A j \in hits : j <= i].fn

\* C17: the registry holds one entry per name, in the order the names were
\* first registered; the entry of a name is its newest callable, which is
\* the one execute calls; specs() gives one spec per entry in that order.
C17_OneEntryPerName ==
    /\ \A i, j \in 1..Len(registry) : registry[i].name = registry[j].name => i = j
    /\ [i \in 1..Len(registry) |-> registry[i].name] = FirstOccurrences(addLog)
    /\ \A i \in 1..Len(registry) : registry[i].fn = NewestFn(registry[i].name)
    /\ r_last.op = "specs" => r_last.outcome = FirstOccurrences(addLog)
    /\ (r_last.op = "execute" /\ r_last.invoked # None) =>
          r_last.invoked = NewestFn(r_last.request.name)
    /\ (r_last.op = "add" /\ ~HasUnannotated(r_last.callable)) =>
          r_last.outcome.kind = "ok"

\* C17 witness: a name was added twice with another name in between, and
\* specs() lists the two names once each, the re-added one first
C17_Witness ==
    /\ Len(addLog) = 3
    /\ addLog[1].fn = "f1" /\ addLog[2].fn = "g" /\ addLog[3].fn = "f2"
    /\ r_last.op = "specs"
    /\ r_last.outcome = <<"get_current_temperature", "add_two_numbers">>

\* C18: generating the schema of, or adding, a callable with a parameter
\* that has no annotation fails, and a failed add leaves the registry as it
\* was.  (Violated: generate_function_calling_schema types such a parameter
\* as "string".)
C18_UnannotatedParameterRejected ==
    /\ (r_last.op = "generate" /\ HasUnannotated(r_last.callable)) =>
          r_last.outcome.kind = "error"
    /\ (r_last.op = "add" /\ HasUnannotated(r_last.callable)) =>
          /\ r_last.outcome.kind = "error"
          /\ IndexOfName(registry, r_last.callable.name) = 0

C20_RequestsUseGivenUrl ==
    \A i \in 1..Len(h_requests) :
       /\ h_requests[i].url = h_requests[1].url
       /\ IF h_url[Len(h_url)] = "/"
          THEN h_requests[i].url \o <<"/">> = h_url
          ELSE h_requests[i].url = h_url

\* C20 witness: a session given a URL ending in two slashes has sent
\* initialize, tools/list and a tools/call to the URL ending in one slash
C20_Witness ==
    /\ Len(h_requests) = 3
    /\ h_requests[3].method = "tools/call"
    /\ h_url = BaseUrl \o <<"/", "mcp", "/", "v1", "/", "/">>
    /\ h_requests[3].url = BaseUrl \o <<"/", "mcp", "/", "v1", "/">>

\* the JSON types a property may have
JsonTypes == {"string", "integer", "number", "boolean", "array", "object"}

\* C21: in a generated schema a parameter is required exactly when it has
\* no default, every required name is a property, a parameter with a
\* default carries that default, and every type is a JSON type.
\* (Violated: the properties carry no default.)
C21_RequiredAndDefaults ==
    (r_last.op = "generate" /\ r_last.outcome.kind = "schema") =>
       LET c == r_last.callable
           sch == r_last.outcome
           names(seq) == { seq[i] : i \in 1..Len(seq) }
       IN /\ Len(sch.properties) = Len(c.params)
          /\ \A i \in 1..Len(c.params) :
                /\ sch.properties[i].name = c.params[i].name
                /\ (c.params[i].name \in names(sch.required)) <=> ~c.params[i].default
                /\ sch.properties[i].value.type \in JsonTypes
                /\ c.params[i].default =>
                      /\ "default" \in DOMAIN sch.properties[i].value
                      /\ sch.properties[i].value.default = DefaultValue
          /\ \A n \in names(sch.required) :
                \E i \in 1..Len(sch.properties) : sch.properties[i].name = n

RECURSIVE MappedType(_)
\* the type information an annotation is to be mapped to
MappedType(hint) ==
    IF hint.kind = "list" THEN [type |-> "array", items |-> MappedType(hint.elem)]
    ELSE IF hint.kind = "enum" THEN [type |-> "string", enum |-> hint.values]
    ELSE IF hint.type = "str" THEN [type |-> "string"]
    ELSE IF hint.type = "int" THEN [type |-> "integer"]
    ELSE IF hint.type = "float" THEN [type |-> "number"]
    ELSE IF hint.type = "bool" THEN [type |-> "boolean"]
    ELSE [type |-> "string"]

\* C23: the type information of every annotated parameter of a callable
\* whose schema is generated is the mapped one: the four plain types, an
\* array with its items for a list, a string with the enum for an
\* enumeration, a string for any other annotation.
\* (Violated: an enumeration gets no enum list.)
C23_TypeMapping ==
    r_last.op = "generate" =>
       \A i \in 1..Len(r_last.callable.params) :
          r_last.callable.params[i].hint # NoHint =>
             GetTypeInfo(r_last.callable.params[i].hint)
                = MappedType(r_last.callable.params[i].hint)

\* C24: a provider call that raises ends the run: the provider's exception
\* reaches the caller as it was raised, the failing call is the last
\* provider call of the run, and nothing is executed after it.
C24_ProviderErrorNotRetried ==
    [][ /\ (pc' = "raised" /\ result'.source = "provider") =>
              /\ result' = ProviderError
              /\ Len(sent') = Len(responses') + 1
        /\ (pc = "raised" /\ callNo' = callNo) =>
              /\ sent' = sent
              /\ executed' = executed
              /\ result' = result ]_vars

\* C24 witness: the second provider call of a run raised, after a tool had
\* been executed, and the run ended with the provider's exception
C24_Witness ==
    /\ pc = "raised"
    /\ result = ProviderError
    /\ Len(sent) = 2
    /\ Len(executed) >= 1

\* C25: connecting opens the transport, then sends initialize, then
\* tools/list, each only after the step before it succeeded; the client is
\* ready only once the tools/list reply is cached, and tools/list is sent
\* exactly once in the session.
C25_ConnectStepsInOrder ==
    /\ b_requests # <<>> =>
          /\ b_requests[1].method = "initialize"
          /\ process = "running"
          /\ streams = "open"
          /\ session # None
    /\ Len(b_requests) >= 2 =>
          /\ b_requests[2].method = "tools/list"
          /\ b_requests[1].reply = "ok"
    /\ \A i \in 3..Len(b_requests) :
          /\ b_requests[i].method = "tools/call"
          /\ b_requests[2].reply = "ok"
    /\ (b_pc = "ready" \/ tools_cache.cached) =>
          /\ tools_cache.cached
          /\ Len(b_requests) >= 2
          /\ b_requests[2].reply = "ok"

\* C25 witness: the client is ready after exactly the two requests of
\* connecting, with the two-tool catalog of the reply in its cache
C25_Witness ==
    /\ b_pc = "ready"
    /\ Len(b_requests) = 2
    /\ tools_cache.cached
    /\ tools_cache.tools = <<"toolA", "toolB">>

\* C26: once the catalog is cached no step changes it, and a list_tools()
\* on the connected client sends no request and returns the cached catalog.
C26_ListToolsServesCache ==
    [][ /\ tools_cache.cached => tools_cache' = tools_cache
        /\ (b_last' # b_last /\ b_last'.op = "list_tools" /\ tools_cache.cached) =>
              /\ b_last'.outcome = "ok"
              /\ b_last'.value = tools_cache.tools
              /\ b_last'.sent = 0
              /\ b_requests' = b_requests ]_vars

\* C26 witness: list_tools() returned the two-tool catalog after a
\* call_tool had been answered, with no request beyond the three sent
C26_Witness ==
    /\ b_last.op = "list_tools"
    /\ b_last.outcome = "ok"
    /\ b_last.value = <<"toolA", "toolB">>
    /\ CallCount = 1
    /\ Len(b_requests) = 3

C29_WithBlockReleases ==
    b_last.op = "__exit__" =>
       /\ session # "entered"
       /\ process # "running"
       /\ streams # "open"
       /\ b_last.open => b_last.propagated = b_last.exc

\* C30: a successful call_tool returns the text of the first content item
\* if it has one, else that item's data; for a result with no content field
\* or an empty content list it returns the string form of the result.
\* (Violated: for an empty content list the empty list itself is returned.)
C30_ResultExtraction ==
    (b_last.op = "call_tool" /\ "reply" \in DOMAIN b_last) =>
       (b_last.reply.kind = "result" =>
          LET r == b_last.reply.result
              first == r.has_content /\ r.is_list /\ Len(r.items) > 0
          IN  /\ b_last.outcome = "ok"
              /\ (first /\ r.items[1].has_text) => b_last.value = <<r.items[1].text>>
              /\ (first /\ ~r.items[1].has_text /\ r.items[1].has_data) =>
                    b_last.value = <<r.items[1].data>>
              /\ (~r.has_content \/ (r.is_list /\ Len(r.items) = 0)) =>
                    b_last.value = <<r.repr>>)

\* C27: within a session every request carries an id strictly greater than
\* the id of every request sent before it, also after a request that failed.
C27_RequestIdsIncrease ==
    \A i, j \in 1..Len(h_requests) :
       i < j => h_requests[i].id < h_requests[j].id

\* C27 witness: a tools/call was sent after a tools/call that failed, and
\* carries the greater id
C27_Witness ==
    /\ Len(h_requests) = 4
    /\ h_requests[3].method = "tools/call"
    /\ h_requests[3].outcome = "protocol_error"
    /\ h_requests[4].id > h_requests[3].id

====
